---- MODULE Spec2Model ----
(***************************************************************************)
(* A model of vttLib (src/src/vttLib/__init__.py): the translation of VTT  *)
(* assembly into FontTools assembly (transform_assembly), the validation   *)
(* of declared composite components against the glyf outline               *)
(* (check_composite_info), the regeneration of the composite declarations  *)
(* of a glyph program (write_composite_info) and the writing of the        *)
(* declared flags onto the outline (set_components_flags).                 *)
(*                                                                         *)
(* Python lists and deques are sequences; Python indexes are kept 0-based  *)
(* in push_indexes and pos, and stream[i] of the source is stream[i + 1]   *)
(* here.  A rendered line "MNEMONIC[flags]" or "PUSH[] v1 v2 ..." is a     *)
(* record of its parts; a deque still pending in the stream is a record of *)
(* kind "deque".                                                           *)
(***************************************************************************)
EXTENDS Integers, Sequences, FiniteSets, TLC

VARIABLES
    tokens,          \* the tokens the loop of transform_assembly has taken
    push_on, push_indexes, stream, pos, components,
    round_to_grid, use_my_metrics, scaled_offset,
    status,          \* "run", "done" or "error"
    err,             \* the exception that ended the call, and where
    result,          \* the lines of the returned text
    rel_ppem, step_no, mnemonic, packed, delta_done,
    glyph,           \* glyph.components of the outline
    vtt_components, check_flags, check_result,
    set_result,      \* how set_components_flags ended, once it was called
    data, head, instructions, tail, runs

tvars == <<tokens, push_on, push_indexes, stream, pos, components,
           round_to_grid, use_my_metrics, scaled_offset, status, err, result>>
dvars == <<rel_ppem, step_no, mnemonic, packed, delta_done>>
cvars == <<vtt_components, check_flags, check_result, set_result>>
wvars == <<data, head, instructions, tail, runs>>
vars == <<tvars, dvars, glyph, cvars, wvars>>

(***************************************************************************)
(* Bounds of the explored inputs.                                          *)
(***************************************************************************)
MaxScopeLen == 6
MaxCompLen == 5
MaxMixedLen == 3
MaxRelPpem == 127
MaxComponents == 2
MaxTextLen == 4
MaxRuns == 2

(***************************************************************************)
(* Tokens, as the parser hands them to transform_assembly.                 *)
(***************************************************************************)
Tok(m, f, s, d) == [mnemonic |-> m, flags |-> f, stack_items |-> s, deltas |-> d]
Marker(m) == Tok(m, "", <<>>, <<>>)

ShorthandDelta == {"DLTP1", "DLTP2", "DLTP3", "DLTC1", "DLTC2", "DLTC3"}
LongDelta == {"DELTAP1", "DELTAP2", "DELTAP3", "DELTAC1", "DELTAC2", "DELTAC3"}

\* mnemonic.startswith(("DLTC", "DLTP", "DELTAP", "DELTAC"))
IsDeltaMnemonic(m) == m \in ShorthandDelta \cup LongDelta
\* mnemonic.startswith(("DELTAP", "DELTAC"))
StartsWithDELTA(m) == m \in LongDelta
\* mnemonic.startswith("DLT")
StartsWithDLT(m) == m \in ShorthandDelta
\* mnemonic.endswith("1"), ("2"), ("3")
EndsWith(m, d) ==
    CASE d = 1 -> m \in {"DLTP1", "DLTC1", "DELTAP1", "DELTAC1"}
      [] d = 2 -> m \in {"DLTP2", "DLTC2", "DELTAP2", "DELTAC2"}
      [] d = 3 -> m \in {"DLTP3", "DLTC3", "DELTAP3", "DELTAC3"}
\* mnemonic.replace("DLT", "DELTA")
ReplaceDLT(m) ==
    CASE m = "DLTP1" -> "DELTAP1" [] m = "DLTP2" -> "DELTAP2"
      [] m = "DLTP3" -> "DELTAP3" [] m = "DLTC1" -> "DELTAC1"
      [] m = "DLTC2" -> "DELTAC2" [] m = "DLTC3" -> "DELTAC3"
      [] OTHER -> m

FlagMarkers == {"OVERLAP", "USEMYMETRICS", "SCALEDCOMPONENTOFFSET",
                "UNSCALEDCOMPONENTOFFSET"}
Directives == {"#PUSHON", "#PUSHOFF", "#BEGIN", "#END", "#PUSH"}
\* the mnemonics that no branch before the last "else" takes
IsOrdinary(m) ==
    /\ m \notin FlagMarkers \cup Directives \cup {"OFFSET", "ANCHOR"}
    /\ ~IsDeltaMnemonic(m)

OrdinaryTokens ==
    {Tok("SRP0", "", <<21>>, <<>>), Tok("MIRP", "m>RBl", <<22, 23>>, <<>>),
     Tok("IUP", "X", <<>>, <<>>)}
OffsetTokens ==
    {Tok("OFFSET", "1", <<2, 10, -20>>, <<>>), Tok("OFFSET", "0", <<6, 30, 40>>, <<>>)}
AnchorTokens == {Tok("ANCHOR", "", <<6, 5, 7>>, <<>>)}
PushTokens == {Tok("#PUSH", "", <<8, 9>>, <<>>)}
DeltaLists ==
    {<<>>, <<<<33, 12, -8>>>>, <<<<33, 12, 1>>, <<34, 10, 2>>, <<33, 13, -1>>>>,
     <<<<33, 10, 2>>, <<34, 13, -1>>, <<34, 12, 1>>, <<34, 12, -2>>>>}
DeltaTokens ==
    {Tok(m, "", <<>>, d) : m \in {"DLTP1", "DELTAP1", "DELTAC2"}, d \in DeltaLists}

ScopeTokens ==
    {Marker(m) : m \in {"#BEGIN", "#END", "#PUSHON", "#PUSHOFF"}} \cup OrdinaryTokens
CompTokens ==
    {Marker(m) : m \in FlagMarkers} \cup OffsetTokens \cup AnchorTokens
        \cup {Tok("SRP0", "", <<21>>, <<>>)}
AllTokens ==
    ScopeTokens \cup CompTokens \cup PushTokens \cup DeltaTokens

AllIn(seq, S) == \A i \in 1..Len(seq) : seq[i] \in S
\* the token sequences explored: long ones over the scope directives, over
\* the component declarations, and short ones over every kind of token
Explored(seq) ==
    \/ Len(seq) <= MaxScopeLen /\ AllIn(seq, ScopeTokens)
    \/ Len(seq) <= MaxCompLen /\ AllIn(seq, CompTokens)
    \/ Len(seq) <= MaxMixedLen /\ AllIn(seq, AllTokens)

(***************************************************************************)
(* Stream entries.                                                         *)
(***************************************************************************)
Deque(items) == [kind |-> "deque", mnemonic |-> "", flags |-> "", items |-> items]
\* "PUSH[] %s" % " ".join([str(i) for i in stack])
PushLine(stack) == [kind |-> "push", mnemonic |-> "PUSH", flags |-> "", items |-> stack]
\* "%s[%s]" % (mnemonic, t.flags)
InstrLine(m, f) == [kind |-> "instr", mnemonic |-> m, flags |-> f, items |-> <<>>]
\* Python truth of a stream entry: an empty deque is false, a line is true
Truthy(e) == e.kind # "deque" \/ Len(e.items) > 0

RECURSIVE Reversed(_)
Reversed(s) == IF s = <<>> THEN <<>> ELSE Append(Reversed(Tail(s)), Head(s))

\* for i in reversed(items): stack.appendleft(i)
RECURSIVE AppendLeftAll_Reversed(_, _)
AppendLeftAll_Reversed(stack, items) ==
    IF items = <<>> THEN stack
    ELSE AppendLeftAll_Reversed(<<Head(items)>> \o stack, Tail(items))
\* the same loop without reversed(): the operands end up in reverse order
AppendLeftAll_NoReverse(stack, items) == AppendLeftAll_Reversed(stack, items)
AppendLeftAll(stack, items) == AppendLeftAll_Reversed(stack, Reversed(items))

(***************************************************************************)
(* Delta encoding (the delta branch of transform_assembly).                *)
(***************************************************************************)
\* Python's x << n on unbounded integers
RECURSIVE ShiftLeft(_, _)
ShiftLeft(x, n) == IF n = 0 THEN x ELSE ShiftLeft(2 * x, n - 1)

\* Python's a | b on unbounded two's-complement integers
RECURSIVE BitOr(_, _)
BitOr(a, b) ==
    IF a = 0 THEN b
    ELSE IF b = 0 THEN a
    ELSE IF a = -1 \/ b = -1 THEN -1
    ELSE 2 * BitOr(a \div 2, b \div 2) + (IF a % 2 = 1 \/ b % 2 = 1 THEN 1 ELSE 0)

\* Python's a & b on unbounded two's-complement integers
RECURSIVE BitAnd(_, _)
BitAnd(a, b) ==
    IF a = 0 \/ b = 0 THEN 0
    ELSE IF a = -1 THEN b
    ELSE IF b = -1 THEN a
    ELSE 2 * BitAnd(a \div 2, b \div 2) + (IF a % 2 = 1 /\ b % 2 = 1 THEN 1 ELSE 0)

\* -8: 0, ... -1: 7, 1: 8, ... 8: 15
Selector(s) == IF s > 0 THEN s + 7 ELSE s + 8

\* the 'delta base' of DELTAC1/DELTAP1, DELTAC2/DELTAP2, DELTAC3/DELTAP3
DeltaBase(m) ==
    CASE EndsWith(m, 1) -> 9
      [] EndsWith(m, 2) -> 25
      [] EndsWith(m, 3) -> 41

\* rel_ppem after "rel_ppem -= delta_base", which only the long spellings run
AdjustedPpem_LongOnly(m, r) == IF StartsWithDELTA(m) THEN r - DeltaBase(m) ELSE r
\* the subtraction run for the shorthand spellings too
AdjustedPpem_AnySpelling(m, r) == r - DeltaBase(m)
AdjustedPpem(m, r) == AdjustedPpem_LongOnly(m, r)

\* (rel_ppem << 4) | selector
PackDelta_Shift3(m, r, s) == BitOr(ShiftLeft(AdjustedPpem(m, r), 3), Selector(s))
PackDelta(m, r, s) == BitOr(ShiftLeft(AdjustedPpem(m, r), 4), Selector(s))

\* deltas.setdefault(point_index, []).append((rel_ppem, step_no)), over an
\* OrderedDict kept as a sequence of [point, specs] in insertion order
RECURSIVE SetDefaultAppend(_, _, _)
SetDefaultAppend(od, p, spec) ==
    IF od = <<>> THEN <<[point |-> p, specs |-> <<spec>>]>>
    ELSE IF Head(od).point = p
         THEN <<[point |-> p, specs |-> Append(Head(od).specs, spec)]>> \o Tail(od)
         ELSE <<Head(od)>> \o SetDefaultAppend(Tail(od), p, spec)

\* for point_index, rel_ppem, step_no in reversed(t.deltas): ...
RECURSIVE GroupLoop(_, _)
GroupLoop(ds, od) ==
    IF ds = <<>> THEN od
    ELSE GroupLoop(Tail(ds),
                   SetDefaultAppend(od, Head(ds)[1], <<Head(ds)[2], Head(ds)[3]>>))
GroupDeltas(deltas) == GroupLoop(Reversed(deltas), <<>>)

\* Python's tuple order on (rel_ppem, step_no)
TupleLess(a, b) == a[1] < b[1] \/ (a[1] = b[1] /\ a[2] < b[2])

\* sorted(delta_specs, reverse=True)
RECURSIVE InsertDescending(_, _)
InsertDescending(sorted, x) ==
    IF sorted = <<>> THEN <<x>>
    ELSE IF TupleLess(Head(sorted), x) THEN <<x>> \o sorted
    ELSE <<Head(sorted)>> \o InsertDescending(Tail(sorted), x)
RECURSIVE SortedReverse_Sorted(_)
SortedReverse_Sorted(specs) ==
    IF specs = <<>> THEN <<>>
    ELSE InsertDescending(SortedReverse_Sorted(Tail(specs)), Head(specs))
\* the specs of a group left in the order they were collected
SortedReverse_Unsorted(specs) == specs
SortedReverse(specs) == SortedReverse_Sorted(specs)

\* the inner loop: stack.appendleft(point_index); stack.appendleft(packed)
RECURSIVE PushSpecs(_, _, _, _)
PushSpecs(stack, m, p, specs) ==
    IF specs = <<>> THEN stack
    ELSE PushSpecs(<<PackDelta(m, Head(specs)[1], Head(specs)[2]), p>> \o stack,
                   m, p, Tail(specs))

\* the outer loop over deltas.items()
RECURSIVE PushGroups(_, _, _)
PushGroups(stack, m, od) ==
    IF od = <<>> THEN stack
    ELSE PushGroups(PushSpecs(stack, m, Head(od).point, SortedReverse(Head(od).specs)),
                    m, Tail(od))

\* the stack after the delta branch: appendleft(n), then the groups
DeltaPush(stack, m, deltas) ==
    PushGroups(<<Len(deltas)>> \o stack, m, GroupDeltas(deltas))

(***************************************************************************)
(* transform_assembly: one action per branch of the token loop, and the    *)
(* closing check with the final join.                                      *)
(***************************************************************************)
NoError == [type |-> "None", where |-> "none", token |-> 0]

TInit ==
    /\ tokens = <<>>
    /\ push_on = TRUE
    /\ push_indexes = <<0>>
    /\ stream = <<Deque(<<>>)>>
    /\ pos = 1
    /\ components = <<>>
    /\ round_to_grid = FALSE
    /\ use_my_metrics = FALSE
    /\ scaled_offset = "None"
    /\ status = "run"
    /\ err = NoError
    /\ result = <<>>

TIdle ==
    /\ tokens = <<>> /\ push_on = TRUE /\ push_indexes = <<0>>
    /\ stream = <<Deque(<<>>)>> /\ pos = 1 /\ components = <<>>
    /\ round_to_grid = FALSE /\ use_my_metrics = FALSE /\ scaled_offset = "None"
    /\ status = "idle" /\ err = NoError /\ result = <<>>

others == <<dvars, glyph, cvars, wvars>>
flagvars == <<round_to_grid, use_my_metrics, scaled_offset>>
scopevars == <<push_on, push_indexes, stream, pos>>

\* "for t in tokens": the loop takes the next token t
Take(t) ==
    /\ status = "run"
    /\ Explored(Append(tokens, t))
    /\ tokens' = Append(tokens, t)
    /\ UNCHANGED others

\* an exception raised while token number Len(tokens') is processed
Raise(type) ==
    /\ status' = "error"
    /\ err' = [type |-> type, where |-> "loop", token |-> Len(tokens) + 1]
    /\ UNCHANGED <<scopevars, components, flagvars, result>>

Continue == UNCHANGED <<status, err, result>>

Overlap ==
    /\ Take(Marker("OVERLAP"))
    /\ Continue
    /\ UNCHANGED <<scopevars, components, flagvars>>

UseMyMetrics ==
    /\ Take(Marker("USEMYMETRICS"))
    /\ use_my_metrics' = TRUE
    /\ Continue
    /\ UNCHANGED <<scopevars, components, round_to_grid, scaled_offset>>

ScaledComponentOffset ==
    /\ Take(Marker("SCALEDCOMPONENTOFFSET"))
    /\ scaled_offset' = "True"
    /\ Continue
    /\ UNCHANGED <<scopevars, components, round_to_grid, use_my_metrics>>

UnscaledComponentOffset ==
    /\ Take(Marker("UNSCALEDCOMPONENTOFFSET"))
    /\ scaled_offset' = "False"
    /\ Continue
    /\ UNCHANGED <<scopevars, components, round_to_grid, use_my_metrics>>

OffsetComponent(index, x, y, rtg, umm, so) ==
    [index |-> index, x |-> x, y |-> y, round_to_grid |-> rtg,
     use_my_metrics |-> umm, scaled_offset |-> so]
AnchorComponent(index, first, second, umm, so) ==
    [index |-> index, first |-> first, second |-> second,
     use_my_metrics |-> umm, scaled_offset |-> so]

\* the component an OFFSET token records, given the pending flags
OffsetOf(t, umm, so) ==
    OffsetComponent(t.stack_items[1], t.stack_items[2], t.stack_items[3],
                    t.flags = "1", umm, so)
AnchorOf(t, umm, so) ==
    AnchorComponent(t.stack_items[1], t.stack_items[2], t.stack_items[3], umm, so)

\* the flags after a declaration has consumed them
ResetFlags_KeepScaled ==
    /\ use_my_metrics' = FALSE
    /\ round_to_grid' = FALSE
    /\ UNCHANGED scaled_offset
ResetFlags ==
    /\ use_my_metrics' = FALSE
    /\ round_to_grid' = FALSE
    /\ scaled_offset' = "None"

Offset ==
    \E t \in OffsetTokens :
        /\ Take(t)
        /\ components' = Append(components, OffsetOf(t, use_my_metrics, scaled_offset))
        /\ ResetFlags
        /\ Continue
        /\ UNCHANGED scopevars

\* stream.append("%s[%s]" % (mnemonic, t.flags)); pos += 1
EmitLine(s, m, f) == Append(s, InstrLine(m, f))

Anchor_NoLine ==
    \E t \in AnchorTokens :
        /\ Take(t)
        /\ components' = Append(components, AnchorOf(t, use_my_metrics, scaled_offset))
        /\ ResetFlags
        /\ Continue
        /\ UNCHANGED scopevars
Anchor ==
    \E t \in AnchorTokens :
        /\ Take(t)
        /\ components' = Append(components, AnchorOf(t, use_my_metrics, scaled_offset))
        /\ use_my_metrics' = FALSE
        /\ scaled_offset' = "None"
        /\ stream' = EmitLine(stream, t.mnemonic, t.flags)
        /\ pos' = pos + 1
        /\ Continue
        /\ UNCHANGED <<push_on, push_indexes, round_to_grid>>

PushOn ==
    /\ Take(Marker("#PUSHON"))
    /\ push_on' = TRUE
    /\ Continue
    /\ UNCHANGED <<push_indexes, stream, pos, components, flagvars>>

PushOff ==
    /\ Take(Marker("#PUSHOFF"))
    /\ push_on' = FALSE
    /\ Continue
    /\ UNCHANGED <<push_indexes, stream, pos, components, flagvars>>

Begin ==
    /\ Take(Marker("#BEGIN"))
    /\ push_indexes' = Append(push_indexes, pos)
    /\ stream' = Append(stream, Deque(<<>>))
    /\ pos' = pos + 1
    /\ Continue
    /\ UNCHANGED <<push_on, components, flagvars>>

\* stream after "#END" has popped pi: the slot holds its PUSH line, or
\* stays an empty deque
CloseScope_NoLenCheck(s, pi) == [s EXCEPT ![pi + 1] = PushLine(s[pi + 1].items)]
CloseScope(s, pi) ==
    IF Len(s[pi + 1].items) > 0
    THEN [s EXCEPT ![pi + 1] = PushLine(s[pi + 1].items)]
    ELSE s

End ==
    /\ Take(Marker("#END"))
    /\ IF push_indexes = <<>>
       THEN Raise("IndexError")          \* pop from empty list
       ELSE /\ push_indexes' = SubSeq(push_indexes, 1, Len(push_indexes) - 1)
            /\ stream' = CloseScope(stream, push_indexes[Len(push_indexes)])
            /\ Continue
            /\ UNCHANGED <<push_on, pos, components, flagvars>>

Push ==
    \E t \in PushTokens :
        /\ Take(t)
        /\ stream' = Append(stream, PushLine(t.stack_items))
        /\ pos' = pos + 1
        /\ Continue
        /\ UNCHANGED <<push_on, push_indexes, components, flagvars>>

\* stream with the deque at stream[push_indexes[-1]] replaced
WithTop(s, pi, stack) == [s EXCEPT ![pi[Len(pi)] + 1] = Deque(stack)]
TopStack(s, pi) == s[pi[Len(pi)] + 1].items

Delta ==
    \E t \in DeltaTokens :
        /\ Take(t)
        /\ IF ~push_on \/ Len(t.deltas) = 0
           THEN Raise("AssertionError")  \* assert push_on; assert n > 0
           ELSE IF push_indexes = <<>>
           THEN Raise("IndexError")      \* push_indexes[-1]
           ELSE /\ stream' =
                     EmitLine(WithTop(stream, push_indexes,
                                      DeltaPush(TopStack(stream, push_indexes),
                                                t.mnemonic, t.deltas)),
                              IF StartsWithDLT(t.mnemonic)
                              THEN ReplaceDLT(t.mnemonic) ELSE t.mnemonic,
                              t.flags)
                /\ pos' = pos + 1
                /\ Continue
                /\ UNCHANGED <<push_on, push_indexes, components, flagvars>>

Instruction ==
    \E t \in OrdinaryTokens :
        /\ Take(t)
        /\ IF push_on /\ Len(t.stack_items) > 0 /\ push_indexes = <<>>
           THEN Raise("IndexError")      \* push_indexes[-1]
           ELSE IF ~push_on /\ Len(t.stack_items) > 0
           THEN Raise("AssertionError")  \* assert not t.stack_items
           ELSE /\ stream' =
                     EmitLine(IF push_on /\ Len(t.stack_items) > 0
                              THEN WithTop(stream, push_indexes,
                                           AppendLeftAll(TopStack(stream, push_indexes),
                                                         t.stack_items))
                              ELSE stream,
                              t.mnemonic, t.flags)
                /\ pos' = pos + 1
                /\ Continue
                /\ UNCHANGED <<push_on, push_indexes, components, flagvars>>

\* assert len(push_indexes) == 1 and push_indexes[0] == 0
ClosingCheck_LenOnly(pi) == Len(pi) = 1
ClosingCheck(pi) == Len(pi) = 1 /\ pi[1] = 0

\* [i for i in stream if i]
RECURSIVE NonEmpty(_)
NonEmpty(s) ==
    IF s = <<>> THEN <<>>
    ELSE (IF Truthy(Head(s)) THEN <<Head(s)>> ELSE <<>>) \o NonEmpty(Tail(s))

\* stream[0] rendered when the root stack holds something
RenderRoot(s) ==
    IF Len(s[1].items) > 0 THEN [s EXCEPT ![1] = PushLine(s[1].items)] ELSE s

\* the end of input: the closing assertion, the root PUSH, the join
Finish ==
    /\ status = "run"
    /\ IF ~ClosingCheck(push_indexes)
       THEN /\ status' = "error"
            /\ err' = [type |-> "AssertionError", where |-> "close", token |-> 0]
            /\ UNCHANGED <<stream, result>>
       ELSE IF \E i \in 1..Len(RenderRoot(stream)) :
                   /\ RenderRoot(stream)[i].kind = "deque"
                   /\ Truthy(RenderRoot(stream)[i])
       THEN /\ status' = "error"         \* str.join over a deque
            /\ err' = [type |-> "TypeError", where |-> "join", token |-> 0]
            /\ stream' = RenderRoot(stream)
            /\ UNCHANGED result
       ELSE /\ stream' = RenderRoot(stream)
            /\ result' = NonEmpty(stream')
            /\ status' = "done"
            /\ UNCHANGED err
    /\ UNCHANGED <<tokens, push_on, push_indexes, pos, components, flagvars, others>>

(***************************************************************************)
(* The parts of the state a specification does not use stay as they start. *)
(***************************************************************************)
\* check_result before check_composite_info has been called
NotCalled == [ok |-> FALSE, raised |-> "None", what |-> "not called", component |-> 0,
              expected |-> 0, found |-> 0]
DIdle ==
    /\ rel_ppem = 0 /\ step_no = 1 /\ mnemonic = "DELTAP1" /\ packed = 0
    /\ delta_done = FALSE
GIdle == glyph = <<>>
CIdle ==
    /\ vtt_components = <<>> /\ check_flags = FALSE /\ check_result = NotCalled
    /\ set_result = "not called"
WIdle ==
    /\ data = <<>> /\ head = <<>> /\ instructions = <<>> /\ tail = <<>> /\ runs = 0

Init == TInit /\ DIdle /\ GIdle /\ CIdle /\ WIdle

Next ==
    \/ Overlap
    \/ UseMyMetrics
    \/ ScaledComponentOffset
    \/ UnscaledComponentOffset
    \/ Offset
    \/ Anchor
    \/ PushOn
    \/ PushOff
    \/ Begin
    \/ End
    \/ Push
    \/ Delta
    \/ Instruction
    \/ Finish

\* transform_assembly over every explored token sequence
Spec == Init /\ [][Next]_vars

(***************************************************************************)
(* What the claims say of a token sequence, read off the tokens alone.     *)
(***************************************************************************)
Count(seq, P(_)) == Cardinality({i \in 1..Len(seq) : P(seq[i])})
IsBegin(t) == t.mnemonic = "#BEGIN"
IsEnd(t) == t.mnemonic = "#END"
IsPushMarker(t) == t.mnemonic = "#PUSH"
IsAnchorTok(t) == t.mnemonic = "ANCHOR"
IsOffsetTok(t) == t.mnemonic = "OFFSET"
IsDeclaration(t) == IsAnchorTok(t) \/ IsOffsetTok(t)
IsOrdinaryTok(t) == IsOrdinary(t.mnemonic)
IsDeltaTok(t) == IsDeltaMnemonic(t.mnemonic)
\* the tokens that stand for a TrueType instruction with a line of its own
IsInstructionTok(t) == IsOrdinaryTok(t) \/ IsDeltaTok(t) \/ IsAnchorTok(t)
NoBeginEnd(toks) == \A i \in 1..Len(toks) : ~IsBegin(toks[i]) /\ ~IsEnd(toks[i])

\* the number of scopes open besides the root after toks, or -1 once an
\* #END has met no open #BEGIN
RECURSIVE OpenAfter(_, _)
OpenAfter(toks, d) ==
    IF toks = <<>> THEN d
    ELSE IF IsBegin(Head(toks)) THEN OpenAfter(Tail(toks), d + 1)
    ELSE IF IsEnd(Head(toks))
         THEN (IF d = 0 THEN -1 ELSE OpenAfter(Tail(toks), d - 1))
    ELSE OpenAfter(Tail(toks), d)
Balanced(toks) == OpenAfter(toks, 0) = 0

\* the #END matching the #BEGIN at b (0 when there is none)
RECURSIVE MatchFrom(_, _, _)
MatchFrom(toks, i, d) ==
    IF i > Len(toks) THEN 0
    ELSE IF IsBegin(toks[i]) THEN MatchFrom(toks, i + 1, d + 1)
    ELSE IF IsEnd(toks[i])
         THEN (IF d = 0 THEN i ELSE MatchFrom(toks, i + 1, d - 1))
    ELSE MatchFrom(toks, i + 1, d)
Match(toks, b) == MatchFrom(toks, b + 1, 0)

SetMax(S) == CHOOSE x \in S : \A y \in S : y <= x

\* the #BEGIN whose scope token i lies in (0 for the root)
Owner(toks, i) ==
    LET open == {b \in 1..(i - 1) :
                    IsBegin(toks[b]) /\ (Match(toks, b) = 0 \/ Match(toks, b) > i)}
    IN  IF open = {} THEN 0 ELSE SetMax(open)

\* the values an instruction hands to the open scope
Contribution(t) ==
    IF IsOrdinaryTok(t) THEN t.stack_items
    ELSE IF IsDeltaTok(t) THEN DeltaPush(<<>>, t.mnemonic, t.deltas)
    ELSE <<>>

\* the values of scope b: a later instruction's stand left of an earlier one's
RECURSIVE ScopeValuesFrom(_, _, _)
ScopeValuesFrom(toks, b, i) ==
    IF i > Len(toks) THEN <<>>
    ELSE ScopeValuesFrom(toks, b, i + 1)
             \o (IF Owner(toks, i) = b THEN Contribution(toks[i]) ELSE <<>>)
ScopeValues(toks, b) == ScopeValuesFrom(toks, b, 1)

\* the values in declaration order, whatever scope they belong to
RECURSIVE DeclaredOperands(_)
DeclaredOperands(toks) ==
    IF toks = <<>> THEN <<>>
    ELSE (IF IsOrdinaryTok(Head(toks)) THEN Head(toks).stack_items ELSE <<>>)
             \o DeclaredOperands(Tail(toks))

LongName(m) == IF m \in ShorthandDelta THEN ReplaceDLT(m) ELSE m

\* the lines the tokens from i on leave in the text, in order
RECURSIVE LinesFrom(_, _)
LinesFrom(toks, i) ==
    IF i > Len(toks) THEN <<>>
    ELSE (IF IsInstructionTok(toks[i])
          THEN <<InstrLine(LongName(toks[i].mnemonic), toks[i].flags)>>
          ELSE IF IsPushMarker(toks[i]) THEN <<PushLine(toks[i].stack_items)>>
          ELSE IF IsBegin(toks[i]) /\ ScopeValues(toks, i) # <<>>
               THEN <<PushLine(ScopeValues(toks, i))>>
          ELSE <<>>)
         \o LinesFrom(toks, i + 1)

RootLine(toks) ==
    IF ScopeValues(toks, 0) # <<>> THEN <<PushLine(ScopeValues(toks, 0))>> ELSE <<>>

PushLinesOf(text) == {i \in 1..Len(text) : text[i].kind = "push"}
InstrLinesOf(text) == {i \in 1..Len(text) : text[i].kind = "instr"}

RECURSIVE PushValues(_)
PushValues(text) ==
    IF text = <<>> THEN <<>>
    ELSE (IF Head(text).kind = "push" THEN Head(text).items ELSE <<>>)
             \o PushValues(Tail(text))

Range(seq) == {seq[i] : i \in 1..Len(seq)}

(***************************************************************************)
(* Claims about transform_assembly.                                        *)
(***************************************************************************)

\* C1 as stated: with no #BEGIN/#END markers the returned text has at most
\* one PUSH[] line, it stands before the first instruction line, and it
\* lists the operands of the instructions in the order of their declaration.
C1_OnePushInDeclarationOrder ==
    (status = "done" /\ NoBeginEnd(tokens)) =>
        /\ Cardinality(PushLinesOf(result)) <= 1
        /\ \A i \in PushLinesOf(result) : \A j \in InstrLinesOf(result) : i < j
        /\ PushValues(result) = DeclaredOperands(tokens)

\* C1 (amended): with no #BEGIN/#END markers the returned text is the root
\* PUSH[] line, when an instruction handed over a value, followed by one line
\* per instruction and per #PUSH marker in input order; the root line is the
\* only PUSH[] line that no #PUSH marker wrote, and it lists the values of
\* the instructions (operands in declared order, the count and pairs of a
\* delta) with a later instruction's values left of an earlier one's.
C1_RootPushFirst ==
    (status = "done" /\ NoBeginEnd(tokens)) =>
        /\ result = RootLine(tokens) \o LinesFrom(tokens, 1)
        /\ Cardinality(PushLinesOf(result))
               <= 1 + Count(tokens, IsPushMarker)
        /\ (ScopeValues(tokens, 0) # <<>> =>
               /\ result[1].kind = "push"
               /\ result[1].items = ScopeValues(tokens, 0))

C1_Witness ==
    /\ status = "done" /\ NoBeginEnd(tokens)
    /\ Count(tokens, IsPushMarker) = 1
    /\ Cardinality({i \in 1..Len(tokens) :
                       IsOrdinaryTok(tokens[i]) /\ tokens[i].stack_items # <<>>}) = 2
    /\ Cardinality(PushLinesOf(result)) = 2
    /\ result[1].items = <<22, 23, 21>>

\* C2: the call returns only when the #BEGIN/#END markers are balanced and
\* the root scope alone is open; every other sequence ends in an error and
\* no text is returned.
C2_ReturnsOnlyBalanced ==
    /\ status = "done" => (Balanced(tokens) /\ push_indexes = <<0>>)
    /\ status # "done" => result = <<>>
    /\ (status = "error" /\ err.where = "close") => ~Balanced(tokens)

C2_Witness ==
    /\ status = "error" /\ err.where = "close"
    /\ Count(tokens, IsBegin) = 1 /\ Count(tokens, IsEnd) = 1
    /\ ~Balanced(tokens)
    /\ Len(push_indexes) = 1

\* C3: the returned text has one ANCHOR line per ANCHOR declaration, an
\* OFFSET declaration adds no line, and no declaration adds an operand to a
\* PUSH[] line.
C3_AnchorLinesOnly ==
    status = "done" =>
        /\ Count(result, IsAnchorTok) = Count(tokens, IsAnchorTok)
        /\ Count(result, IsOffsetTok) = 0
        /\ Cardinality(InstrLinesOf(result)) = Count(tokens, IsInstructionTok)
        /\ Len(PushValues(result))
               = Len(DeclaredOperands(tokens))
                 + Len(PushValues(LinesFrom(SelectSeq(tokens, IsPushMarker), 1)))
                 + Len(PushValues(
                       [i \in 1..Len(SelectSeq(tokens, IsDeltaTok)) |->
                           PushLine(Contribution(SelectSeq(tokens, IsDeltaTok)[i]))]))
        /\ \A i \in 1..Len(tokens) :
               IsDeclaration(tokens[i]) =>
                   Range(tokens[i].stack_items) \cap Range(PushValues(result)) = {}

C3_Witness ==
    /\ status = "done"
    /\ Count(tokens, IsAnchorTok) = 1 /\ Count(tokens, IsOffsetTok) = 1
    /\ Count(tokens, IsOrdinaryTok) = 1
    /\ Len(result) = 3 /\ result[1].items = <<21>>

\* the flags pending at token i: what the markers since the last
\* declaration before i say
LastDeclBefore(toks, i) ==
    LET d == {j \in 1..(i - 1) : IsDeclaration(toks[j])}
    IN  IF d = {} THEN 0 ELSE SetMax(d)
MarkedMetrics(toks, i) ==
    \E j \in (LastDeclBefore(toks, i) + 1)..(i - 1) : toks[j].mnemonic = "USEMYMETRICS"
MarkedScaled(toks, i) ==
    LET m == {j \in (LastDeclBefore(toks, i) + 1)..(i - 1) :
                 toks[j].mnemonic \in {"SCALEDCOMPONENTOFFSET", "UNSCALEDCOMPONENTOFFSET"}}
    IN  IF m = {} THEN "None"
        ELSE IF toks[SetMax(m)].mnemonic = "SCALEDCOMPONENTOFFSET" THEN "True"
        ELSE "False"

\* the index in toks of the k-th declaration
RECURSIVE NthDeclaration(_, _, _)
NthDeclaration(toks, k, i) ==
    IF IsDeclaration(toks[i])
    THEN (IF k = 1 THEN i ELSE NthDeclaration(toks, k - 1, i + 1))
    ELSE NthDeclaration(toks, k, i + 1)

\* C8: the k-th component is the k-th declaration, with use_my_metrics and
\* scaled_offset as the markers between the (k-1)-th declaration and the k-th
\* say, and with nothing of the markers before the (k-1)-th.
C8_PendingFlagsConsumed ==
    /\ Len(components) = Count(tokens, IsDeclaration)
    /\ \A k \in 1..Len(components) :
           LET i == NthDeclaration(tokens, k, 1)
               t == tokens[i]
               c == components[k]
           IN  /\ c.index = t.stack_items[1]
               /\ ("x" \in DOMAIN c) = IsOffsetTok(t)
               /\ ("first" \in DOMAIN c) = IsAnchorTok(t)
               /\ c.use_my_metrics = MarkedMetrics(tokens, i)
               /\ c.scaled_offset = MarkedScaled(tokens, i)

C8_Witness ==
    /\ status = "done"
    /\ Len(components) = 3
    /\ components[1].use_my_metrics /\ components[1].scaled_offset = "False"
    /\ ~components[2].use_my_metrics /\ components[2].scaled_offset = "None"
    /\ "first" \in DOMAIN components[2]
    /\ "x" \in DOMAIN components[3]

\* C10: every scope fills the slot its #BEGIN reserved: the text is the root
\* line followed, token by token, by the instruction lines, the #PUSH lines
\* and, at the place of each #BEGIN, the PUSH[] line of the values handed
\* over between that #BEGIN and its #END outside any deeper scope; a scope
\* without values leaves no line.
C10_ScopesFillOwnSlot ==
    status = "done" =>
        /\ result = RootLine(tokens) \o LinesFrom(tokens, 1)
        /\ \A b \in 1..Len(tokens) :
               IsBegin(tokens[b]) =>
                   LET slot == 2 + Cardinality({i \in 1..(b - 1) :
                                   \/ IsInstructionTok(tokens[i])
                                   \/ IsPushMarker(tokens[i])
                                   \/ IsBegin(tokens[i])})
                   IN  stream[slot] = IF ScopeValues(tokens, b) # <<>>
                                      THEN PushLine(ScopeValues(tokens, b))
                                      ELSE Deque(<<>>)

C10_Witness ==
    /\ status = "done"
    /\ Len(tokens) = 6
    /\ IsBegin(tokens[1]) /\ IsBegin(tokens[3])
    /\ Match(tokens, 1) = 6 /\ Match(tokens, 3) = 5
    /\ result = <<PushLine(<<21>>), InstrLine("SRP0", ""),
                  PushLine(<<22, 23>>), InstrLine("MIRP", "m>RBl")>>

(***************************************************************************)
(* Delta packing on its own: one (rel_ppem, step_no) pair of a delta       *)
(* instruction is packed as the inner loop of the delta branch packs it.   *)
(***************************************************************************)
StepNumbers == (-8..8) \ {0}
RelPpems == (-MaxRelPpem)..MaxRelPpem
PackedMnemonics == {"DELTAP1", "DELTAC2", "DELTAP3", "DLTC1"}

DInit ==
    /\ mnemonic \in PackedMnemonics
    /\ rel_ppem \in RelPpems
    /\ step_no \in StepNumbers
    /\ packed = 0
    /\ delta_done = FALSE

Pack ==
    /\ ~delta_done
    /\ packed' = PackDelta(mnemonic, rel_ppem, step_no)
    /\ delta_done' = TRUE
    /\ UNCHANGED <<rel_ppem, step_no, mnemonic, tvars, glyph, cvars, wvars>>

DeltaNext == Pack

\* the packing of every pair of the stated ranges, under each base
DeltaInit == TIdle /\ DInit /\ GIdle /\ CIdle /\ WIdle
SpecDelta == DeltaInit /\ [][DeltaNext]_vars

\* the base of a generation: 9, 25 or 41 for the long spellings, none for
\* the shorthand ones
GenerationBase(m) ==
    IF m \in {"DELTAP1", "DELTAC1"} THEN 9
    ELSE IF m \in {"DELTAP2", "DELTAC2"} THEN 25
    ELSE IF m \in {"DELTAP3", "DELTAC3"} THEN 41
    ELSE 0
\* decoding: the low four bits give step_no, the rest plus the base rel_ppem
DecodeStep(v) == IF (v % 16) >= 8 THEN (v % 16) - 7 ELSE (v % 16) - 8
DecodePpem(v, base) == (v \div 16) + base

\* what every pair of the ranges packs to
PackedValues ==
    [m \in PackedMnemonics |->
        [r \in RelPpems |-> [s \in StepNumbers |-> PackDelta(m, r, s)]]]

\* C4: the packed value has its selector in 0..15, decodes to the step_no
\* and rel_ppem it was packed from, and no other pair packs to it.
C4_PackingInvertible ==
    delta_done =>
        /\ Selector(step_no) \in 0..15
        /\ (packed % 16) = Selector(step_no)
        /\ DecodeStep(packed) = step_no
        /\ DecodePpem(packed, GenerationBase(mnemonic)) = rel_ppem
        /\ \A r \in RelPpems, s \in StepNumbers :
               PackedValues[mnemonic][r][s] = packed => (r = rel_ppem /\ s = step_no)

C4_Witness ==
    /\ delta_done
    /\ mnemonic = "DELTAP3" /\ rel_ppem = -127 /\ step_no = -8
    /\ packed = -2688

(***************************************************************************)
(* check_composite_info: the declared components against the outline.      *)
(***************************************************************************)
\* the component flags vttLib imports from fontTools' glyf table (0x0004,
\* 0x0200, 0x0800, 0x1000)
ROUND_XY_TO_GRID == 4
USE_MY_METRICS == 512
SCALED_COMPONENT_OFFSET == 2048
UNSCALED_COMPONENT_OFFSET == 4096

\* a component of glyph.components, placed by offset or by anchor points
GlyfOffset(name, x, y, flags) == [glyphName |-> name, x |-> x, y |-> y, flags |-> flags]
GlyfAnchor(name, p, q, flags) ==
    [glyphName |-> name, firstPt |-> p, secondPt |-> q, flags |-> flags]

\* hasattr(obj, attr)
HasAttr(obj, attr) == attr \in DOMAIN obj

\* Python truth of flags & BIT
HasFlag(flags, bit) == BitAnd(flags, bit) # 0
\* Python truth of scaled_offset: None and False are false
IsTrue(v) == v = "True"

GlyphOrder == <<".notdef", "A", "B">>

\* glyph_order.index(base_name)
RECURSIVE ListIndexFrom(_, _, _)
ListIndexFrom(list, x, i) ==
    IF list[i + 1] = x THEN i ELSE ListIndexFrom(list, x, i + 1)
ListIndex(list, x) == ListIndexFrom(list, x, 0)

Ok == [ok |-> TRUE, raised |-> "None", what |-> "", component |-> 0,
       expected |-> 0, found |-> 0]
InvalidComposite(what, i, expected, found) ==
    [ok |-> FALSE, raised |-> "VTTLibInvalidComposite", what |-> what,
     component |-> i, expected |-> expected, found |-> found]

\* the flag checks that follow "if not check_flags: continue"
FlagChecks(i, comp, vttcomp) ==
    IF HasFlag(comp.flags, USE_MY_METRICS) # vttcomp.use_my_metrics
    THEN InvalidComposite("wrong 'USE_MY_METRICS' flag", i, 0, 0)
    ELSE IF HasFlag(comp.flags, SCALED_COMPONENT_OFFSET) # IsTrue(vttcomp.scaled_offset)
    THEN InvalidComposite("wrong 'SCALED_COMPONENT_OFFSET' flag", i, 0, 0)
    ELSE IF HasFlag(comp.flags, UNSCALED_COMPONENT_OFFSET) # IsTrue(vttcomp.scaled_offset)
    THEN InvalidComposite("wrong 'UNSCALED_COMPONENT_OFFSET' flag", i, 0, 0)
    ELSE Ok

\* the body of the loop for component i (0-based) when the index matches
PlacementChecks_NoType(i, comp, vttcomp, checkFlags) ==
    IF HasAttr(comp, "firstPt") /\ HasAttr(vttcomp, "first")
    THEN IF comp.firstPt # vttcomp.first
         THEN InvalidComposite("wrong anchor point", i, comp.firstPt, vttcomp.first)
         ELSE IF comp.secondPt # vttcomp.second
         THEN InvalidComposite("wrong anchor point", i, comp.secondPt, vttcomp.second)
         ELSE Ok
    ELSE IF HasAttr(comp, "x") /\ HasAttr(vttcomp, "x")
    THEN IF comp.x # vttcomp.x
         THEN InvalidComposite("wrong x offset", i, comp.x, vttcomp.x)
         ELSE IF comp.y # vttcomp.y
         THEN InvalidComposite("wrong y offset", i, comp.y, vttcomp.y)
         ELSE Ok
    ELSE Ok
PlacementChecks(i, comp, vttcomp, checkFlags) ==
    IF HasAttr(comp, "firstPt")
    THEN IF ~HasAttr(vttcomp, "first") /\ HasAttr(vttcomp, "x")
         THEN InvalidComposite("incorrect type: expected ANCHOR[], found OFFSET[]",
                               i, 0, 0)
         ELSE IF comp.firstPt # vttcomp.first
         THEN InvalidComposite("wrong anchor point", i, comp.firstPt, vttcomp.first)
         ELSE IF comp.secondPt # vttcomp.second
         THEN InvalidComposite("wrong anchor point", i, comp.secondPt, vttcomp.second)
         ELSE Ok
    ELSE IF ~HasAttr(vttcomp, "x") /\ HasAttr(vttcomp, "first")
         THEN InvalidComposite("incorrect type: expected OFFSET[], found ANCHOR[]",
                               i, 0, 0)
         ELSE IF comp.x # vttcomp.x
         THEN InvalidComposite("wrong x offset", i, comp.x, vttcomp.x)
         ELSE IF comp.y # vttcomp.y
         THEN InvalidComposite("wrong y offset", i, comp.y, vttcomp.y)
         ELSE IF checkFlags
                 /\ HasFlag(comp.flags, ROUND_XY_TO_GRID) # vttcomp.round_to_grid
         THEN InvalidComposite("wrong 'ROUND_XY_TO_GRID' flag", i, 0, 0)
         ELSE Ok

CheckComponent(i, comp, vttcomp, order, checkFlags) ==
    IF vttcomp.index # ListIndex(order, comp.glyphName)
    THEN InvalidComposite("incorrect index", i,
                          ListIndex(order, comp.glyphName), vttcomp.index)
    ELSE IF ~PlacementChecks(i, comp, vttcomp, checkFlags).ok
    THEN PlacementChecks(i, comp, vttcomp, checkFlags)
    ELSE IF ~checkFlags THEN Ok
    ELSE FlagChecks(i, comp, vttcomp)

\* for i, comp in enumerate(glyph.components): ...
RECURSIVE CheckLoop(_, _, _, _, _)
CheckLoop(i, comps, vtt, order, checkFlags) ==
    IF i >= Len(comps) THEN Ok
    ELSE IF ~CheckComponent(i, comps[i + 1], vtt[i + 1], order, checkFlags).ok
    THEN CheckComponent(i, comps[i + 1], vtt[i + 1], order, checkFlags)
    ELSE CheckLoop(i + 1, comps, vtt, order, checkFlags)

check_composite_info(comps, vtt, order, checkFlags) ==
    IF Len(vtt) # Len(comps)
    THEN InvalidComposite("incorrect number of components", 0, Len(comps), Len(vtt))
    ELSE CheckLoop(0, comps, vtt, order, checkFlags)

(***************************************************************************)
(* The outlines and declarations the validation is explored on.            *)
(***************************************************************************)
FlagSets ==
    {a + b + c + d : a \in {0, ROUND_XY_TO_GRID}, b \in {0, USE_MY_METRICS},
                     c \in {0, SCALED_COMPONENT_OFFSET},
                     d \in {0, UNSCALED_COMPONENT_OFFSET}}
Placements == {<<0, 0>>, <<1, 0>>, <<0, 1>>}
TriState == {"None", "True", "False"}

GlyfComponents ==
    {GlyfOffset(n, p[1], p[2], f) : n \in {"A", "B"}, p \in Placements, f \in FlagSets}
        \cup {GlyfAnchor(n, p[1], p[2], f) :
                 n \in {"A", "B"}, p \in Placements, f \in FlagSets}
VttComponents ==
    {OffsetComponent(i, p[1], p[2], r, u, so) :
        i \in {1, 2}, p \in Placements, r \in BOOLEAN, u \in BOOLEAN, so \in TriState}
        \cup {AnchorComponent(i, p[1], p[2], u, so) :
                 i \in {1, 2}, p \in Placements, u \in BOOLEAN, so \in TriState}

\* a few components for the outlines of more than one component
FewGlyfComponents ==
    {GlyfOffset("A", 1, 0, 0), GlyfAnchor("B", 0, 1, USE_MY_METRICS),
     GlyfOffset("B", 0, 1, ROUND_XY_TO_GRID + UNSCALED_COMPONENT_OFFSET)}
FewVttComponents ==
    {OffsetComponent(1, 1, 0, FALSE, FALSE, "None"),
     AnchorComponent(2, 0, 1, TRUE, "None"),
     OffsetComponent(2, 0, 1, TRUE, FALSE, "False"),
     AnchorComponent(1, 1, 0, FALSE, "None")}

SeqsUpTo(S, n) == UNION {[1..k -> S] : k \in 0..n}

CInit ==
    /\ \/ glyph \in SeqsUpTo(GlyfComponents, 1) /\ vtt_components \in SeqsUpTo(VttComponents, 1)
       \/ /\ glyph \in SeqsUpTo(FewGlyfComponents, MaxComponents)
          /\ vtt_components \in SeqsUpTo(FewVttComponents, MaxComponents)
    /\ check_flags \in BOOLEAN
    /\ check_result = NotCalled
    /\ set_result = "not called"

Check ==
    /\ check_result = NotCalled
    /\ check_result' = check_composite_info(glyph, vtt_components, GlyphOrder, check_flags)
    /\ UNCHANGED <<glyph, vtt_components, check_flags, set_result, tvars, dvars, wvars>>

CheckNext == Check

\* check_composite_info over the explored outlines and declarations
CheckInit == TIdle /\ DIdle /\ CInit /\ WIdle
SpecCheck == CheckInit /\ [][CheckNext]_vars

\* the position of a glyph name in the glyph order (0-based)
PositionOf(order, name) == (CHOOSE k \in 1..Len(order) : order[k] = name) - 1
IsAnchorPlaced(c) == "firstPt" \in DOMAIN c
IsAnchorDecl(c) == "first" \in DOMAIN c

\* what the declaration and the outline must agree on whatever the flags
SameComponent(comp, vttcomp, order) ==
    /\ vttcomp.index = PositionOf(order, comp.glyphName)
    /\ IsAnchorPlaced(comp) = IsAnchorDecl(vttcomp)
    /\ IsAnchorPlaced(comp) =>
           (comp.firstPt = vttcomp.first /\ comp.secondPt = vttcomp.second)
    /\ ~IsAnchorPlaced(comp) => (comp.x = vttcomp.x /\ comp.y = vttcomp.y)
SameComponents(comps, vtt, order) ==
    /\ Len(comps) = Len(vtt)
    /\ \A i \in 1..Len(comps) : SameComponent(comps[i], vtt[i], order)

BitSet(flags, bit) == (flags \div bit) % 2 = 1
\* the declared flags equal the outline's
SameFlags(comp, vttcomp) ==
    /\ vttcomp.use_my_metrics = BitSet(comp.flags, USE_MY_METRICS)
    /\ ~IsAnchorPlaced(comp) =>
           vttcomp.round_to_grid = BitSet(comp.flags, ROUND_XY_TO_GRID)
    /\ \/ /\ vttcomp.scaled_offset = "True"
          /\ BitSet(comp.flags, SCALED_COMPONENT_OFFSET)
          /\ ~BitSet(comp.flags, UNSCALED_COMPONENT_OFFSET)
       \/ /\ vttcomp.scaled_offset = "False"
          /\ ~BitSet(comp.flags, SCALED_COMPONENT_OFFSET)
          /\ BitSet(comp.flags, UNSCALED_COMPONENT_OFFSET)
       \/ /\ vttcomp.scaled_offset = "None"
          /\ ~BitSet(comp.flags, SCALED_COMPONENT_OFFSET)
          /\ ~BitSet(comp.flags, UNSCALED_COMPONENT_OFFSET)

\* C5: without flag-checking the validation passes exactly when count,
\* index, variant and placement agree at every position; otherwise it raises
\* VTTLibInvalidComposite, a count mismatch with the outline's count as
\* "expected" and the declared count as "found".
C5_ValidationWithoutFlags ==
    (check_result # NotCalled /\ ~check_flags) =>
        /\ check_result.ok = SameComponents(glyph, vtt_components, GlyphOrder)
        /\ ~check_result.ok => check_result.raised = "VTTLibInvalidComposite"
        /\ Len(glyph) # Len(vtt_components) =>
               /\ check_result.what = "incorrect number of components"
               /\ check_result.expected = Len(glyph)
               /\ check_result.found = Len(vtt_components)

C5_Witness ==
    /\ check_result # NotCalled /\ ~check_flags
    /\ Len(glyph) = 2 /\ Len(vtt_components) = 2
    /\ SameComponent(glyph[1], vtt_components[1], GlyphOrder)
    /\ IsAnchorPlaced(glyph[2]) /\ ~IsAnchorDecl(vtt_components[2])
    /\ ~check_result.ok /\ check_result.component = 1

\* C6: with flag-checking, and count, index, variant and placement agreeing,
\* the validation passes exactly when every declared flag equals the
\* outline's.
C6_ValidationWithFlags ==
    (check_result # NotCalled /\ check_flags
        /\ SameComponents(glyph, vtt_components, GlyphOrder)) =>
        check_result.ok = (\A i \in 1..Len(glyph) : SameFlags(glyph[i], vtt_components[i]))

(***************************************************************************)
(* write_composite_info.  A glyph program is a sequence of pieces: a line  *)
(* break ("\n" or "\r"), a statement that one of the five patterns of      *)
(* composite_info_RE matches in full, or other text without a line break.  *)
(***************************************************************************)
Piece(text, args) == [text |-> text, args |-> args]
NL == Piece("\n", <<>>)
CR == Piece("\r", <<>>)
OtherText == Piece("SVTCA[X]", <<>>)

\* _use_my_metrics, _overlap, _scaled_component_offset, _anchor, _offset,
\* each without its leading "^" and its trailing "[\r\n]?"
MatchesPattern(piece) ==
    \/ /\ piece.text \in {"USEMYMETRICS[]", "OVERLAP[]", "SCALEDCOMPONENTOFFSET[]",
                          "UNSCALEDCOMPONENTOFFSET[]"}
       /\ Len(piece.args) = 0
    \/ /\ piece.text \in {"ANCHOR[]", "OFFSET[r]", "OFFSET[R]"}
       /\ Len(piece.args) = 3

\* "^" under re.MULTILINE, at 0-based position p
AtLineStart(text, p) == p = 0 \/ text[p] = NL

\* the end of the match of composite_info_RE that starts at p
MatchEnd_NoLineBreak(text, p) == p + 1
MatchEnd(text, p) ==
    IF p + 2 <= Len(text) /\ text[p + 2] \in {NL, CR} THEN p + 2 ELSE p + 1

\* composite_info_RE.finditer(data): the spans (start, end) from p on
RECURSIVE FindIterFrom(_, _)
FindIterFrom(text, p) ==
    IF p >= Len(text) THEN <<>>
    ELSE IF AtLineStart(text, p) /\ MatchesPattern(text[p + 1])
    THEN <<<<p, MatchEnd(text, p)>>>> \o FindIterFrom(text, MatchEnd(text, p))
    ELSE FindIterFrom(text, p + 1)
FindIter(text) == FindIterFrom(text, 0)

\* data[a:b]
Slice(text, a, b) == SubSeq(text, a + 1, b)

\* the loop "head += data[last:start]; last = end" over the spans
RECURSIVE HeadLoop(_, _, _, _)
HeadLoop(text, spans, acc, last) ==
    IF spans = <<>> THEN [head |-> acc, last |-> last]
    ELSE HeadLoop(text, Tail(spans),
                  acc \o Slice(text, last, Head(spans)[1]), Head(spans)[2])

vtt_version == 6

\* the statements written for one component of the outline
ComponentInstructions(comp, order) ==
    (IF HasFlag(comp.flags, USE_MY_METRICS)
     THEN <<Piece("USEMYMETRICS[]", <<>>), NL>> ELSE <<>>)
    \o (IF vtt_version >= 6 /\ HasFlag(comp.flags, SCALED_COMPONENT_OFFSET)
        THEN <<Piece("SCALEDCOMPONENTOFFSET[]", <<>>), NL>> ELSE <<>>)
    \o (IF vtt_version >= 6 /\ HasFlag(comp.flags, UNSCALED_COMPONENT_OFFSET)
        THEN <<Piece("UNSCALEDCOMPONENTOFFSET[]", <<>>), NL>> ELSE <<>>)
    \o (IF HasAttr(comp, "firstPt")
        THEN <<Piece("ANCHOR[]", <<ListIndex(order, comp.glyphName),
                                   comp.firstPt, comp.secondPt>>), NL>>
        ELSE <<Piece(IF HasFlag(comp.flags, ROUND_XY_TO_GRID)
                     THEN "OFFSET[R]" ELSE "OFFSET[r]",
                     <<ListIndex(order, comp.glyphName), comp.x, comp.y>>), NL>>)

RECURSIVE Instructions(_, _)
Instructions(comps, order) ==
    IF comps = <<>> THEN <<>>
    ELSE ComponentInstructions(Head(comps), order) \o Instructions(Tail(comps), order)

\* the statements of text that the spans cover
RECURSIVE Matched(_, _)
Matched(text, spans) ==
    IF spans = <<>> THEN <<>>
    ELSE Slice(text, Head(spans)[1], Head(spans)[2]) \o Matched(text, Tail(spans))

\* a write that keeps the declarations it found in front of the new ones
write_composite_info_KeepOld(comps, order, text) ==
    LET h == HeadLoop(text, FindIter(text), <<>>, 0)
    IN  [head |-> h.head,
         instructions |-> Matched(text, FindIter(text)) \o Instructions(comps, order),
         tail |-> IF h.last < Len(text) THEN Slice(text, h.last, Len(text)) ELSE <<>>]
write_composite_info(comps, order, text) ==
    LET h == HeadLoop(text, FindIter(text), <<>>, 0)
    IN  [head |-> h.head,
         instructions |-> Instructions(comps, order),
         tail |-> IF h.last < Len(text) THEN Slice(text, h.last, Len(text)) ELSE <<>>]

TextPieces ==
    {NL, CR, OtherText, Piece("USEMYMETRICS[]", <<>>),
     Piece("OFFSET[R]", <<1, 1, 0>>), Piece("OFFSET[R]", <<1, 1>>)}

WInit ==
    /\ data \in SeqsUpTo(TextPieces, MaxTextLen)
    /\ glyph \in SeqsUpTo(FewGlyfComponents, MaxComponents)
    /\ head = <<>> /\ instructions = <<>> /\ tail = <<>>
    /\ runs = 0

Written(r, text) ==
    /\ data' = text
    /\ head' = r.head
    /\ instructions' = r.instructions
    /\ tail' = r.tail
    /\ runs' = runs + 1
    /\ UNCHANGED <<glyph, tvars, dvars, cvars>>

\* the first call, on the glyph program as stored
WriteCompositeInfo ==
    /\ runs = 0
    /\ Written(write_composite_info(glyph, GlyphOrder, data), data)

\* a further call on "".join of the three results of the call before
WriteAgain ==
    /\ runs >= 1 /\ runs < MaxRuns
    /\ Written(write_composite_info(glyph, GlyphOrder, head \o instructions \o tail),
               head \o instructions \o tail)

WriteNext == WriteCompositeInfo \/ WriteAgain

WriteInit == TIdle /\ DIdle /\ CIdle /\ WInit
\* write_composite_info, called again on its own output
SpecWrite == WriteInit /\ [][WriteNext]_vars

\* the places (1-based) where a declaration statement starts, and all the
\* places the declaration statements take up
DeclStarts(text) ==
    {p \in 1..Len(text) : MatchesPattern(text[p]) /\ (p = 1 \/ text[p - 1] = NL)}
DeclPlaces(text) ==
    DeclStarts(text)
        \cup {p \in 2..Len(text) : (p - 1) \in DeclStarts(text) /\ text[p] \in {NL, CR}}
SetMin(S) == CHOOSE x \in S : \A y \in S : x <= y

\* the pieces of text at the places of S, in order
RECURSIVE Pick(_, _, _)
Pick(text, S, p) ==
    IF p > Len(text) THEN <<>>
    ELSE (IF p \in S THEN <<text[p]>> ELSE <<>>) \o Pick(text, S, p + 1)

\* C7: a run on the concatenation of the results of the run before returns
\* the declaration text that run returned.
C7_RegenerationIdempotent ==
    [][(runs >= 1 /\ runs' = runs + 1) => instructions' = instructions]_vars

C7_Witness ==
    /\ runs = 2
    /\ Len(glyph) = 2
    /\ FindIter(data) # <<>>
    /\ head # <<>> /\ tail # <<>>
    /\ Len(instructions) >= 5

\* C9 as stated: head is the text before the first declaration statement
\* and tail the text after the last one, whatever stands between them.
C9_HeadBeforeFirstDeclaration ==
    (runs >= 1 /\ DeclStarts(data) # {}) =>
        /\ head = SubSeq(data, 1, SetMin(DeclStarts(data)) - 1)
        /\ tail = SubSeq(data, SetMax(DeclPlaces(data)) + 1, Len(data))

\* C9 (amended): head is the text before the first declaration statement
\* followed by the text between the declaration statements, in order, and
\* tail is the text after the last one, both copied unchanged; without a
\* declaration statement head is empty and tail is the whole text.
C9_HeadCollectsTextBetween ==
    runs >= 1 =>
        IF DeclStarts(data) = {}
        THEN head = <<>> /\ tail = data
        ELSE /\ head = Pick(data, (1..SetMax(DeclPlaces(data))) \ DeclPlaces(data), 1)
             /\ tail = SubSeq(data, SetMax(DeclPlaces(data)) + 1, Len(data))

C9_Witness ==
    /\ runs = 1
    /\ Cardinality(DeclStarts(data)) = 2
    /\ MatchesPattern(data[1])
    /\ head = <<OtherText, NL>>
    /\ tail = <<>>

(***************************************************************************)
(* Claims about the delta branch of transform_assembly.                    *)
(***************************************************************************)
\* the token the last step took
LastToken(toks) == toks[Len(toks)]
\* a step of the token loop that took a delta instruction
TakesDelta == status = "run" /\ Len(tokens') = Len(tokens) + 1 /\ IsDeltaTok(LastToken(tokens'))

\* the place of the group of triple i: the groups stand in the order in
\* which their point index first appears when the triples are read
\* last-to-first
LastPlace(deltas, p) == SetMax({i \in 1..Len(deltas) : deltas[i][1] = p})
\* triple i is handed over before triple j
HandedBefore(deltas, i, j) ==
    LET a == deltas[i]
        b == deltas[j]
    IN  IF a[1] # b[1] THEN LastPlace(deltas, a[1]) > LastPlace(deltas, b[1])
        ELSE IF a[2] # b[2] THEN a[2] > b[2]
        ELSE IF a[3] # b[3] THEN a[3] > b[3]
        ELSE i < j
\* the triple handed over as the k-th (k = 1 for the first)
HandedAt(deltas, k) ==
    CHOOSE i \in 1..Len(deltas) :
        Cardinality({j \in 1..Len(deltas) : HandedBefore(deltas, j, i)}) = k - 1
\* the values of a delta instruction as they stand in the scope: the pair of
\* the triple handed over last is leftmost, the count n is rightmost
RECURSIVE DeltaValuesFrom(_, _, _)
DeltaValuesFrom(m, deltas, k) ==
    IF k = 0 THEN <<Len(deltas)>>
    ELSE LET d == deltas[HandedAt(deltas, k)]
         IN  <<PackDelta(m, d[2], d[3]), d[1]>> \o DeltaValuesFrom(m, deltas, k - 1)
DeltaValues(t) == DeltaValuesFrom(t.mnemonic, t.deltas, Len(t.deltas))

\* what the scope of token i held before token i
HeldBefore(toks, i) == ScopeValues(SubSeq(toks, 1, i - 1), Owner(toks, i))

\* C11: a delta instruction with n >= 1 triples taken in PUSH_ON mode while a
\* scope is open puts 2n+1 values at the left of that scope: the count n
\* first, then per triple the point index and the packed value, the
\* triples taken group by group (groups by point index, in the order of first
\* appearance reading last-to-first) and in descending (rel_ppem, step_no)
\* order within a group; in the returned text these values stand immediately
\* to the left of what the scope held before.  A delta instruction in
\* PUSH_OFF mode or with no triple ends the call in an error.
C11_DeltaValuesPrepended ==
    /\ [][TakesDelta =>
            LET t == LastToken(tokens')
                n == Len(t.deltas)
            IN  IF ~push_on \/ n = 0
                THEN status' = "error" /\ stream' = stream
                ELSE push_indexes # <<>> =>
                       /\ status' = "run"
                       /\ push_indexes' = push_indexes
                       /\ TopStack(stream', push_indexes)
                              = DeltaValues(t) \o TopStack(stream, push_indexes)
                       /\ Len(TopStack(stream', push_indexes))
                              = Len(TopStack(stream, push_indexes)) + 2 * n + 1]_vars
    /\ [](status = "done" =>
            \A i \in 1..Len(tokens) :
                IsDeltaTok(tokens[i]) =>
                    LET want == DeltaValues(tokens[i]) \o HeldBefore(tokens, i)
                    IN  /\ Len(DeltaValues(tokens[i])) = 2 * Len(tokens[i].deltas) + 1
                        /\ \E l \in PushLinesOf(result) :
                               /\ Len(result[l].items) >= Len(want)
                               /\ SubSeq(result[l].items,
                                         Len(result[l].items) - Len(want) + 1,
                                         Len(result[l].items)) = want)

\* a delta with two groups and an unsorted group is taken after an operand
C11_Witness ==
    /\ status = "done"
    /\ Len(tokens) = 2
    /\ tokens[1].mnemonic = "SRP0"
    /\ tokens[2].mnemonic = "DELTAC2" /\ Len(tokens[2].deltas) = 4
    /\ result[1] = PushLine(<<-231, 33, -202, 34, -200, 34, -185, 34, 4, 21>>)

\* the base the suffix 1, 2 or 3 of a delta mnemonic names
SuffixBase(m) ==
    IF m \in {"DLTP1", "DLTC1", "DELTAP1", "DELTAC1"} THEN 9
    ELSE IF m \in {"DLTP2", "DLTC2", "DELTAP2", "DELTAC2"} THEN 25
    ELSE 41
\* the packed value when the base of the suffix is subtracted
PackedLessSuffixBase(m, r, s) == 16 * (r - SuffixBase(m)) + Selector(s)
\* the packed value when only a long spelling has its base subtracted
PackedLessGenerationBase(m, r, s) == 16 * (r - GenerationBase(m)) + Selector(s)

\* the values of a delta instruction in the scope, under a given packing
DeltaValuesBy(Packed(_, _, _), t) ==
    LET n == Len(t.deltas)
    IN  [j \in 1..(2 * n + 1) |->
            IF j = 2 * n + 1 THEN n
            ELSE LET d == t.deltas[HandedAt(t.deltas, n - ((j - 1) \div 2))]
                 IN  IF j % 2 = 1 THEN Packed(t.mnemonic, d[2], d[3]) ELSE d[1]]

\* a step that takes a delta instruction and hands its values to a scope
HandsOverDelta ==
    /\ TakesDelta
    /\ push_on /\ Len(LastToken(tokens').deltas) > 0 /\ push_indexes # <<>>

\* the same triples with rel_ppem raised by the base of the suffix
RaisedByBase(m, deltas) ==
    [i \in 1..Len(deltas) |-> <<deltas[i][1], deltas[i][2] + SuffixBase(m), deltas[i][3]>>]

\* C12 as stated: whichever the spelling, the base 9, 25 or 41 of the suffix
\* is subtracted from rel_ppem before packing, so the shorthand and the long
\* spelling hand over the same values, and the emitted line carries the
\* long-form mnemonic.
C12_SpellingMakesNoDifference ==
    [][HandsOverDelta =>
          LET t == LastToken(tokens')
          IN  /\ TopStack(stream', push_indexes)
                     = DeltaValuesBy(PackedLessSuffixBase, t) \o TopStack(stream, push_indexes)
              /\ TopStack(stream', push_indexes)
                     = DeltaPush(TopStack(stream, push_indexes),
                                 LongName(t.mnemonic), t.deltas)
              /\ stream'[Len(stream')] = InstrLine(LongName(t.mnemonic), t.flags)]_vars

\* C12 (amended): the emitted line always carries the long-form mnemonic,
\* but only the long spellings (DELTAP*/DELTAC*) have the base 9, 25 or 41
\* subtracted from rel_ppem before packing; the shorthand spellings
\* (DLTP*/DLTC*) pack rel_ppem as written, so a shorthand instruction hands
\* over what the long spelling hands over for the same triples with rel_ppem
\* raised by the base.
C12_ShorthandPacksAsWritten ==
    [][HandsOverDelta =>
          LET t == LastToken(tokens')
          IN  /\ TopStack(stream', push_indexes)
                     = DeltaValuesBy(PackedLessGenerationBase, t)
                           \o TopStack(stream, push_indexes)
              /\ StartsWithDLT(t.mnemonic) =>
                     TopStack(stream', push_indexes)
                         = DeltaPush(TopStack(stream, push_indexes),
                                     LongName(t.mnemonic),
                                     RaisedByBase(t.mnemonic, t.deltas))
              /\ stream'[Len(stream')] = InstrLine(LongName(t.mnemonic), t.flags)]_vars

\* a shorthand delta has gone through: its line is spelled long, its values
\* are packed from rel_ppem 12, 10 and 13 as written
C12_Witness ==
    /\ status = "done"
    /\ Len(tokens) = 1 /\ tokens[1].mnemonic = "DLTP1"
    /\ result = <<PushLine(<<169, 34, 200, 33, 215, 33, 3>>), InstrLine("DELTAP1", "")>>

(***************************************************************************)
(* Claims about where unbalanced markers are detected.                     *)
(***************************************************************************)
\* the push mode token i is taken in
PushOnAt(toks, i) ==
    LET sw == {j \in 1..(i - 1) : toks[j].mnemonic \in {"#PUSHON", "#PUSHOFF"}}
    IN  sw = {} \/ toks[SetMax(sw)].mnemonic = "#PUSHON"
\* the sequence has no defect besides its markers: no operand and no delta
\* in PUSH_OFF mode, no delta without a triple
NoOtherDefect(toks) ==
    \A i \in 1..Len(toks) :
        /\ (IsOrdinaryTok(toks[i]) /\ toks[i].stack_items # <<>>) => PushOnAt(toks, i)
        /\ IsDeltaTok(toks[i]) => (PushOnAt(toks, i) /\ toks[i].deltas # <<>>)

\* C13 as stated: when unbalanced markers are the only defect, every token
\* is processed without an error and the failure is raised by the closing
\* check alone.
C13_DetectedOnlyAtEnd ==
    (status = "error" /\ NoOtherDefect(tokens)) => (err.where = "close" /\ ~Balanced(tokens))

(***************************************************************************)
(* set_components_flags, as compile_instructions calls it: after           *)
(* check_composite_info has accepted the declared components, without      *)
(* flag checking.                                                          *)
(***************************************************************************)
\* Python's ~x
BitNot(x) == -x - 1
\* comp.flags |= BIT, comp.flags &= ~BIT
SetBit(flags, bit) == BitOr(flags, bit)
ClearBit(flags, bit) == BitAnd(flags, BitNot(bit))

\* one pass of the loop body: the component as it is left, and the exception
\* the pass raised ("None" when it raised none)
SetComponentFlags(comp, vttcomp, version) ==
    LET f1 == IF vttcomp.use_my_metrics
              THEN SetBit(comp.flags, USE_MY_METRICS)
              ELSE ClearBit(comp.flags, USE_MY_METRICS)
    IN  IF ~HasAttr(vttcomp, "round_to_grid")
        THEN [comp |-> [comp EXCEPT !.flags = f1], raised |-> "AttributeError"]
        ELSE LET f2 == IF vttcomp.round_to_grid
                       THEN SetBit(f1, ROUND_XY_TO_GRID)
                       ELSE ClearBit(f1, ROUND_XY_TO_GRID)
                 f3 == IF version < 6 \/ vttcomp.scaled_offset = "None" THEN f2
                       ELSE IF IsTrue(vttcomp.scaled_offset)
                       THEN ClearBit(SetBit(f2, SCALED_COMPONENT_OFFSET),
                                     UNSCALED_COMPONENT_OFFSET)
                       ELSE ClearBit(SetBit(f2, UNSCALED_COMPONENT_OFFSET),
                                     SCALED_COMPONENT_OFFSET)
             IN  [comp |-> [comp EXCEPT !.flags = f3], raised |-> "None"]

\* for i, comp in enumerate(glyph.components): the loop stops at the first
\* exception and leaves the components changed so far as they are
RECURSIVE SetFlagsLoop(_, _, _, _)
SetFlagsLoop(i, comps, vtt, version) ==
    IF i > Len(comps) THEN [comps |-> comps, raised |-> "None"]
    ELSE LET r == SetComponentFlags(comps[i], vtt[i], version)
         IN  IF r.raised # "None"
             THEN [comps |-> [comps EXCEPT ![i] = r.comp], raised |-> r.raised]
             ELSE SetFlagsLoop(i + 1, [comps EXCEPT ![i] = r.comp], vtt, version)

set_components_flags(comps, vtt, version) ==
    IF Len(vtt) # Len(comps)
    THEN [comps |-> comps, raised |-> "AssertionError"]
    ELSE SetFlagsLoop(1, comps, vtt, version)

\* compile_instructions: "if components:", the glyph is a composite,
\* check_composite_info has returned, then set_components_flags(glyph,
\* components) with the default vtt_version
SetComponentsFlags ==
    /\ check_result.ok /\ ~check_flags
    /\ vtt_components # <<>> /\ glyph # <<>>
    /\ set_result = "not called"
    /\ LET r == set_components_flags(glyph, vtt_components, vtt_version)
       IN  /\ glyph' = r.comps
           /\ set_result' = IF r.raised = "None" THEN "done" ELSE r.raised
    /\ UNCHANGED <<vtt_components, check_flags, check_result, tvars, dvars, wvars>>

CompileInit == CheckInit /\ check_flags = FALSE
CompileNext == Check \/ SetComponentsFlags
\* the component part of compile_instructions over the explored outlines
SpecCompile == CompileInit /\ [][CompileNext]_vars

\* C14: once check_composite_info has accepted the declared components,
\* set_components_flags completes without error for offset and for anchor
\* components alike; afterwards every outline component has its
\* USE_MY_METRICS bit equal to the declared use_my_metrics, exactly the
\* SCALED_COMPONENT_OFFSET or the UNSCALED_COMPONENT_OFFSET bit set as the
\* declared scaled_offset says, and both bits unchanged when it is None.
C14_FlagsWrittenBack ==
    [][(set_result = "not called" /\ set_result' # "not called") =>
          /\ set_result' = "done"
          /\ \A i \in 1..Len(glyph) :
                 LET old == glyph[i].flags
                     new == glyph'[i].flags
                     v == vtt_components[i]
                 IN  /\ BitSet(new, USE_MY_METRICS) = v.use_my_metrics
                     /\ v.scaled_offset = "True" =>
                            /\ BitSet(new, SCALED_COMPONENT_OFFSET)
                            /\ ~BitSet(new, UNSCALED_COMPONENT_OFFSET)
                     /\ v.scaled_offset = "False" =>
                            /\ ~BitSet(new, SCALED_COMPONENT_OFFSET)
                            /\ BitSet(new, UNSCALED_COMPONENT_OFFSET)
                     /\ v.scaled_offset = "None" =>
                            /\ BitSet(new, SCALED_COMPONENT_OFFSET)
                                   = BitSet(old, SCALED_COMPONENT_OFFSET)
                            /\ BitSet(new, UNSCALED_COMPONENT_OFFSET)
                                   = BitSet(old, UNSCALED_COMPONENT_OFFSET)]_vars

====
